---- MODULE Spec2Model ----
(***************************************************************************)
(* Meeting analysis pipeline: the transcript parser (agents/nodes/parser)  *)
(* and the four-node LangGraph pipeline (agents/graph) with its nodes.     *)
(*                                                                         *)
(* Text is a sequence of one-character strings.  A Python value that may   *)
(* be None, a str or a bytes object is a record [type, val].               *)
(***************************************************************************)
EXTENDS Integers, Sequences, FiniteSets, TLC

VARIABLES
    pc,        \* "idle", the node to run next, or END
    state,     \* the graph's state
    args,      \* the arguments of analyze()
    calls,     \* the node invocations of this run, in order
    returned,  \* the states analyze() has returned, in order
    run,       \* how many times analyze() was called
    plan       \* the collaborator's scripted outcomes (repeated runs only)

vars == <<pc, state, args, calls, returned, run, plan>>

(***************************************************************************)
(* Python values                                                           *)
(***************************************************************************)
PyNone == [type |-> "NoneType", val |-> <<>>]

PyStr(s) == [type |-> "str", val |-> s]

PyBytes(s) == [type |-> "bytes", val |-> s]

\* bool(v) for None, str and bytes
Truthy(v) == v.type # "NoneType" /\ v.val # <<>>

\* a or b
PyOr(a, b) == IF Truthy(a) THEN a ELSE b

(***************************************************************************)
(* Characters                                                              *)
(***************************************************************************)
Digits == {"0", "1", "2", "3", "4", "5", "6", "7", "8", "9"}

Upper == {"A", "B", "C", "D", "E", "F", "G", "H", "I", "J", "K", "L", "M",
          "N", "O", "P", "Q", "R", "S", "T", "U", "V", "W", "X", "Y", "Z"}

Lower == {"a", "b", "c", "d", "e", "f", "g", "h", "i", "j", "k", "l", "m",
          "n", "o", "p", "q", "r", "s", "t", "u", "v", "w", "x", "y", "z"}

\* what str.strip() removes and what \s matches
Whitespace == {" ", "\t", "\n", "\r", "\f"}

\* The characters between the brackets of the dash class as the source file
\* holds them: "-", U+00E2, U+20AC, U+201C.
DashClass == {"-", "U+00E2", "U+20AC", "U+201C"}

\* Code point order of the characters the model's texts use (for sorted()).
CharTable == <<"\t", "\n", " ", "(", ")", "-", "0", "1", "2", "3", "4", "5",
               "6", "7", "8", "9", ":", "A", "B", "C", "U", "[", "]", "a",
               "b", "c", "d", "e", "h", "i", "k", "l", "m", "n", "o", "r",
               "t", "w", "x", "y", "U+00E2", "U+2013", "U+2014", "U+201C",
               "U+20AC">>

CodePoint(c) == CHOOSE n \in 1..Len(CharTable) : CharTable[n] = c

\* s < t for two str values (lexicographic by code point)
RECURSIVE StrLess(_, _)
StrLess(s, t) ==
    IF t = <<>> THEN FALSE
    ELSE IF s = <<>> THEN TRUE
    ELSE IF s[1] # t[1] THEN CodePoint(s[1]) < CodePoint(t[1])
    ELSE StrLess(Tail(s), Tail(t))

(***************************************************************************)
(* str methods                                                             *)
(***************************************************************************)
RECURSIVE LStrip(_)
LStrip(s) == IF s # <<>> /\ s[1] \in Whitespace THEN LStrip(Tail(s)) ELSE s

RECURSIVE RStrip(_)
RStrip(s) ==
    IF s # <<>> /\ s[Len(s)] \in Whitespace
    THEN RStrip(SubSeq(s, 1, Len(s) - 1))
    ELSE s

\* s.strip()
Strip(s) == RStrip(LStrip(s))

\* s.split("\n"): the pieces between newlines, always at least one piece
RECURSIVE SplitLines(_, _)
SplitLines(s, cur) ==
    IF s = <<>> THEN <<cur>>
    ELSE IF s[1] = "\n" THEN <<cur>> \o SplitLines(Tail(s), <<>>)
    ELSE SplitLines(Tail(s), Append(cur, s[1]))

Split(s) == SplitLines(s, <<>>)

\* sep.join(parts)
RECURSIVE Join(_, _)
Join(sep, parts) ==
    IF parts = <<>> THEN <<>>
    ELSE IF Len(parts) = 1 THEN parts[1]
    ELSE parts[1] \o sep \o Join(sep, Tail(parts))

(***************************************************************************)
(* Regular expressions (re.compile / Pattern.match): a backtracking matcher *)
(* that lists the ways a pattern matches from a position, in the order the *)
(* re module tries them; match() reports the first.                        *)
(***************************************************************************)
Cls(S) == [op |-> "in", set |-> S]

NotCls(S) == [op |-> "notin", set |-> S]

Lit(c) == Cls({c})

\* "." matches anything but a newline
Dot == NotCls({"\n"})

Cat(rs) == [op |-> "cat", kids |-> rs]

\* r{lo,hi}, greedy
Rep(r, lo, hi) == [op |-> "rep", kid |-> r, lo |-> lo, hi |-> hi, nomax |-> FALSE]

\* r*, greedy
Star(r) == [op |-> "rep", kid |-> r, lo |-> 0, hi |-> 0, nomax |-> TRUE]

\* r+, greedy
Plus(r) == [op |-> "rep", kid |-> r, lo |-> 1, hi |-> 0, nomax |-> TRUE]

\* (?:r)?
Opt(r) == Rep(r, 0, 1)

\* the n-th capturing group
Grp(n, r) == [op |-> "grp", n |-> n, kid |-> r]

\* the patterns have at most three groups
GroupCount == 3

NoCaps == [n \in 1..GroupCount |-> <<0, 0>>]

\* the captures of a match followed by the captures of its continuation
Over(c1, c2) == [n \in 1..GroupCount |-> IF c2[n] # <<0, 0>> THEN c2[n] ELSE c1[n]]

Extend(a, bs) == [n \in 1..Len(bs) |-> [end |-> bs[n].end, caps |-> Over(a.caps, bs[n].caps)]]

RECURSIVE Run(_, _, _)
RECURSIVE RunCat(_, _, _, _)
RECURSIVE CatFrom(_, _, _, _, _)
RECURSIVE RunRep(_, _, _, _)
RECURSIVE RepFrom(_, _, _, _, _)

\* the matches of r in s from position i, most preferred first
Run(r, s, i) ==
    CASE r.op = "in" ->
            IF i <= Len(s) /\ s[i] \in r.set
            THEN <<[end |-> i + 1, caps |-> NoCaps]>> ELSE <<>>
      [] r.op = "notin" ->
            IF i <= Len(s) /\ s[i] \notin r.set
            THEN <<[end |-> i + 1, caps |-> NoCaps]>> ELSE <<>>
      [] r.op = "cat" -> RunCat(r.kids, 1, s, i)
      [] r.op = "rep" -> RunRep(r, s, i, 0)
      [] r.op = "grp" ->
            LET ms == Run(r.kid, s, i)
            IN  [n \in 1..Len(ms) |->
                    [end |-> ms[n].end,
                     caps |-> [ms[n].caps EXCEPT ![r.n] = <<i, ms[n].end>>]]]

RunCat(kids, k, s, i) ==
    IF k > Len(kids) THEN <<[end |-> i, caps |-> NoCaps]>>
    ELSE CatFrom(Run(kids[k], s, i), 1, kids, k + 1, s)

CatFrom(heads, h, kids, k, s) ==
    IF h > Len(heads) THEN <<>>
    ELSE Extend(heads[h], RunCat(kids, k, s, heads[h].end))
         \o CatFrom(heads, h + 1, kids, k, s)

RunRep(r, s, i, count) ==
    LET more == IF r.nomax \/ count < r.hi
                THEN RepFrom(Run(r.kid, s, i), 1, r, s, count + 1)
                ELSE <<>>
        stop == IF count >= r.lo THEN <<[end |-> i, caps |-> NoCaps]>> ELSE <<>>
    IN  more \o stop

RepFrom(heads, h, r, s, count) ==
    IF h > Len(heads) THEN <<>>
    ELSE Extend(heads[h], RunRep(r, s, heads[h].end, count))
         \o RepFrom(heads, h + 1, r, s, count)

\* pattern.match(s): the groups of the first match at the start of s, or
\* <<>> for no match
Match(r, s) ==
    LET ms == Run(r, s, 1)
    IN  IF ms = <<>> THEN <<>>
        ELSE [n \in 1..GroupCount |->
                 IF ms[1].caps[n] = <<0, 0>> THEN <<>>
                 ELSE SubSeq(s, ms[1].caps[n][1], ms[1].caps[n][2] - 1)]

(***************************************************************************)
(* parser.py: PATTERNS                                                     *)
(***************************************************************************)
WS == Cls(Whitespace)

\* \d{1,2}:\d{2}(?::\d{2})?
TimeRe ==
    Cat(<<Rep(Cls(Digits), 1, 2), Lit(":"), Rep(Cls(Digits), 2, 2),
          Opt(Cat(<<Lit(":"), Rep(Cls(Digits), 2, 2)>>))>>)

bracket_timestamp ==
    Cat(<<Lit("["), Grp(1, TimeRe), Lit("]"), Star(WS),
          Grp(2, Plus(NotCls({":"}))), Lit(":"), Star(WS), Grp(3, Plus(Dot))>>)

dash_timestamp ==
    Cat(<<Grp(1, TimeRe), Star(WS), Cls(DashClass), Star(WS),
          Grp(2, Plus(NotCls({":"}))), Lit(":"), Star(WS), Grp(3, Plus(Dot))>>)

paren_timestamp ==
    Cat(<<Grp(1, Plus(NotCls({"("}))), Star(WS), Lit("("), Grp(2, TimeRe),
          Lit(")"), Lit(":"), Star(WS), Grp(3, Plus(Dot))>>)

simple_speaker ==
    Cat(<<Grp(1, Cat(<<Cls(Upper), Plus(Cls(Upper \cup Lower \cup Whitespace))>>)),
          Lit(":"), Star(WS), Grp(2, Plus(Dot))>>)

\* as PATTERNS, but the bare-speaker pattern is tried first
PATTERNS_simple_first ==
    <<[name |-> "simple_speaker", re |-> simple_speaker],
      [name |-> "bracket_timestamp", re |-> bracket_timestamp],
      [name |-> "dash_timestamp", re |-> dash_timestamp],
      [name |-> "paren_timestamp", re |-> paren_timestamp]>>

\* the dict's insertion order
PATTERNS ==
    <<[name |-> "bracket_timestamp", re |-> bracket_timestamp],
      [name |-> "dash_timestamp", re |-> dash_timestamp],
      [name |-> "paren_timestamp", re |-> paren_timestamp],
      [name |-> "simple_speaker", re |-> simple_speaker]>>

(***************************************************************************)
(* parser.py: the line classifier, the segment builder, the formatter      *)
(***************************************************************************)
NoMatch == [matched |-> FALSE, timestamp |-> <<>>, speaker |-> <<>>, text |-> <<>>]

Parsed(ts, sp, tx) == [matched |-> TRUE, timestamp |-> ts, speaker |-> sp, text |-> tx]

\* the dict a pattern's groups are mapped to
LineFields(name, groups) ==
    CASE name = "bracket_timestamp" -> Parsed(groups[1], Strip(groups[2]), Strip(groups[3]))
      [] name = "dash_timestamp" -> Parsed(groups[1], Strip(groups[2]), Strip(groups[3]))
      [] name = "paren_timestamp" -> Parsed(groups[2], Strip(groups[1]), Strip(groups[3]))
      [] name = "simple_speaker" -> Parsed(<<"0", "0", ":", "0", "0">>, Strip(groups[1]), Strip(groups[2]))

RECURSIVE TryPatterns(_, _)
TryPatterns(line, k) ==
    IF k > Len(PATTERNS) THEN NoMatch
    ELSE LET groups == Match(PATTERNS[k].re, line)
         IN  IF groups # <<>> THEN LineFields(PATTERNS[k].name, groups)
             ELSE TryPatterns(line, k + 1)

parse_transcript_line(line) ==
    LET stripped == Strip(line)
    IN  IF stripped = <<>> THEN NoMatch ELSE TryPatterns(stripped, 1)

Segment(sp, ts, tx) == [speaker |-> sp, timestamp |-> ts, text |-> tx]

Unknown == <<"U", "n", "k", "n", "o", "w", "n">>

ZeroTime == <<"0", "0", ":", "0", "0">>

\* as ParseLineStep, but a matched line of the last segment's speaker is
\* added to that segment
ParseLineStep_merge(loc, line) ==
    LET parsed == parse_transcript_line(line)
        segs == loc.segments
    IN  IF parsed.matched
        THEN IF segs # <<>> /\ segs[Len(segs)].speaker = parsed.speaker
             THEN [loc EXCEPT !.segments[Len(segs)].text = @ \o <<" ">> \o parsed.text]
             ELSE [segments |-> Append(segs, Segment(parsed.speaker, parsed.timestamp, parsed.text)),
                   current_speaker |-> parsed.speaker,
                   current_timestamp |-> parsed.timestamp]
        ELSE IF Strip(line) # <<>>
        THEN IF segs # <<>>
             THEN [loc EXCEPT !.segments[Len(segs)].text = @ \o <<" ">> \o Strip(line)]
             ELSE [loc EXCEPT !.segments =
                      <<Segment(loc.current_speaker, loc.current_timestamp, Strip(line))>>]
        ELSE loc

\* as ParseLineStep, but a continuation line is added to the first segment
ParseLineStep_first(loc, line) ==
    LET parsed == parse_transcript_line(line)
        segs == loc.segments
    IN  IF parsed.matched
        THEN [segments |-> Append(segs, Segment(parsed.speaker, parsed.timestamp, parsed.text)),
              current_speaker |-> parsed.speaker,
              current_timestamp |-> parsed.timestamp]
        ELSE IF Strip(line) # <<>>
        THEN IF segs # <<>>
             THEN [loc EXCEPT !.segments[1].text = @ \o <<" ">> \o Strip(line)]
             ELSE [loc EXCEPT !.segments =
                      <<Segment(loc.current_speaker, loc.current_timestamp, Strip(line))>>]
        ELSE loc

\* as ParseLineStep, but a continuation line always starts a segment labelled
\* with the carried speaker and timestamp
ParseLineStep_carry(loc, line) ==
    LET parsed == parse_transcript_line(line)
        segs == loc.segments
    IN  IF parsed.matched
        THEN [segments |-> Append(segs, Segment(parsed.speaker, parsed.timestamp, parsed.text)),
              current_speaker |-> parsed.speaker,
              current_timestamp |-> parsed.timestamp]
        ELSE IF Strip(line) # <<>>
        THEN [loc EXCEPT !.segments =
                 Append(segs, Segment(loc.current_speaker, loc.current_timestamp, Strip(line)))]
        ELSE loc

\* one iteration of the loop over the lines; loc holds the loop's variables
ParseLineStep(loc, line) ==
    LET parsed == parse_transcript_line(line)
        segs == loc.segments
    IN  IF parsed.matched
        THEN [segments |-> Append(segs, Segment(parsed.speaker, parsed.timestamp, parsed.text)),
              current_speaker |-> parsed.speaker,
              current_timestamp |-> parsed.timestamp]
        ELSE IF Strip(line) # <<>>
        THEN IF segs # <<>>
             THEN [loc EXCEPT !.segments[Len(segs)].text = @ \o <<" ">> \o Strip(line)]
             ELSE [loc EXCEPT !.segments =
                      <<Segment(loc.current_speaker, loc.current_timestamp, Strip(line))>>]
        ELSE loc

RECURSIVE ParseLines(_, _)
ParseLines(loc, lines) ==
    IF lines = <<>> THEN loc
    ELSE ParseLines(ParseLineStep(loc, lines[1]), Tail(lines))

parse_transcript(raw_transcript) ==
    ParseLines([segments |-> <<>>, current_speaker |-> Unknown,
                current_timestamp |-> ZeroTime],
               Split(raw_transcript)).segments

FormatSegment(seg) ==
    <<"[">> \o seg.timestamp \o <<"]", " ">> \o seg.speaker \o <<":", " ">> \o seg.text

format_parsed_transcript(segments) ==
    Join(<<"\n">>, [n \in 1..Len(segments) |-> FormatSegment(segments[n])])

\* sorted(list(S)) for a set of str
RECURSIVE SortedList(_)
SortedList(S) ==
    IF S = {} THEN <<>>
    ELSE LET least == CHOOSE x \in S : \A y \in S \ {x} : StrLess(x, y)
         IN  <<least>> \o SortedList(S \ {least})

\* as extract_participants, but the "Unknown" speaker is kept
extract_participants_unknown(segments) ==
    SortedList({segments[n].speaker : n \in {m \in 1..Len(segments) :
                    segments[m].speaker # <<>>}})

extract_participants(segments) ==
    SortedList({segments[n].speaker : n \in {m \in 1..Len(segments) :
                    segments[m].speaker # <<>> /\ segments[m].speaker # Unknown}})

(***************************************************************************)
(* The generation collaborator as a node sees it: get_llm_service() raises,*)
(* llm_service.chat() raises, or chat() returns the response text.         *)
(***************************************************************************)
Unavailable(msg) == [kind |-> "unavailable", msg |-> msg, text |-> <<>>]

Raises(msg) == [kind |-> "raises", msg |-> msg, text |-> <<>>]

Response(text) == [kind |-> "response", msg |-> "", text |-> text]

\* what a try block ends with: no exception, or the exception's str(e)
NoExc == [raised |-> FALSE, msg |-> ""]

Exc(msg) == [raised |-> TRUE, msg |-> msg]

\* state.get(key)
Get(st, key) == IF key \in DOMAIN st THEN st[key] ELSE PyNone

\* state.get(key, [])
GetList(st, key) == IF key \in DOMAIN st THEN st[key] ELSE <<>>

\* transcript[:15000]
TranscriptLimit == 15000

Take(s, n) == SubSeq(s, 1, IF Len(s) < n THEN Len(s) ELSE n)

\* as TranscriptOf, but without the fallback to raw_transcript
TranscriptOf_parsed(st) == Get(st, "parsed_transcript")

\* state.get("parsed_transcript") or state["raw_transcript"]
TranscriptOf(st) == PyOr(Get(st, "parsed_transcript"), st.raw_transcript)

NotSpecified == <<"N", "o", "t", " ", "s", "p", "e", "c", "i", "f", "i", "e", "d">>

\* ", ".join(state.get("participants", [])) or "Not specified"
ParticipantsOf(st) ==
    LET joined == Join(<<",", " ">>, GetList(st, "participants"))
    IN  IF joined # <<>> THEN joined ELSE NotSpecified

\* what the user message is formatted from
PromptOf(st) ==
    [title |-> st.meeting_title,
     participants |-> ParticipantsOf(st),
     transcript |-> [type |-> TranscriptOf(st).type,
                     val |-> Take(TranscriptOf(st).val, TranscriptLimit)]]

\* The try block of a generation-backed node up to and including the call:
\* the service is fetched, the prompt is built (slicing None raises), the
\* call is awaited.
NodeTry(st, o) ==
    IF o.kind = "unavailable" THEN Exc(o.msg)
    ELSE IF TranscriptOf(st).type = "NoneType"
    THEN Exc("'NoneType' object is not subscriptable")
    ELSE IF o.kind = "raises" THEN Exc(o.msg)
    ELSE NoExc

(***************************************************************************)
(* parser.py: parser_node                                                  *)
(***************************************************************************)
\* raw_transcript.split("\n") on what is not a str
ParserTry(st) ==
    CASE st.raw_transcript.type = "str" -> NoExc
      [] st.raw_transcript.type = "NoneType" ->
            Exc("'NoneType' object has no attribute 'split'")
      [] st.raw_transcript.type = "bytes" ->
            Exc("a bytes-like object is required, not 'str'")

\* as parser_node, but the stripped transcript is written back as raw_transcript
parser_node_rewrites(st) ==
    IF ParserTry(st).raised
    THEN [error |-> PyStr(<<"Failed to parse transcript: ", ParserTry(st).msg>>),
          parsed_transcript |-> st.raw_transcript,
          participants |-> <<>>]
    ELSE LET segments == parse_transcript(st.raw_transcript.val)
         IN  [raw_transcript |-> PyStr(Strip(st.raw_transcript.val)),
              parsed_transcript |-> PyStr(format_parsed_transcript(segments)),
              participants |-> extract_participants(segments)]

\* as parser_node, but a failure leaves parsed_transcript at its default
parser_node_default(st) ==
    IF ParserTry(st).raised
    THEN [error |-> PyStr(<<"Failed to parse transcript: ", ParserTry(st).msg>>),
          parsed_transcript |-> PyNone,
          participants |-> <<>>]
    ELSE LET segments == parse_transcript(st.raw_transcript.val)
         IN  [parsed_transcript |-> PyStr(format_parsed_transcript(segments)),
              participants |-> extract_participants(segments)]

parser_node(st) ==
    IF ParserTry(st).raised
    THEN [error |-> PyStr(<<"Failed to parse transcript: ", ParserTry(st).msg>>),
          parsed_transcript |-> st.raw_transcript,
          participants |-> <<>>]
    ELSE LET segments == parse_transcript(st.raw_transcript.val)
         IN  [parsed_transcript |-> PyStr(format_parsed_transcript(segments)),
              participants |-> extract_participants(segments)]

(***************************************************************************)
(* summarizer.py                                                           *)
(***************************************************************************)
UpperSeq == <<"A", "B", "C", "D", "E", "F", "G", "H", "I", "J", "K", "L", "M",
              "N", "O", "P", "Q", "R", "S", "T", "U", "V", "W", "X", "Y", "Z">>

LowerSeq == <<"a", "b", "c", "d", "e", "f", "g", "h", "i", "j", "k", "l", "m",
              "n", "o", "p", "q", "r", "s", "t", "u", "v", "w", "x", "y", "z">>

\* s.lower()
ToLower(s) ==
    [n \in 1..Len(s) |->
        IF s[n] \in Upper
        THEN LowerSeq[CHOOSE k \in 1..Len(UpperSeq) : UpperSeq[k] = s[n]]
        ELSE s[n]]

\* sub in s
Contains(s, sub) ==
    \E i \in 1..(Len(s) - Len(sub) + 1) : SubSeq(s, i, i + Len(sub) - 1) = sub

\* s.startswith(c)
StartsWith(s, c) == s # <<>> /\ s[1] = c

\* s.lstrip(chars)
RECURSIVE LStripChars(_, _)
LStripChars(s, chars) ==
    IF s # <<>> /\ s[1] \in chars THEN LStripChars(Tail(s), chars) ELSE s

KeyTopicsHeader == <<"k", "e", "y", " ", "t", "o", "p", "i", "c", "s">>

TopicsDiscussedHeader ==
    <<"t", "o", "p", "i", "c", "s", " ", "d", "i", "s", "c", "u", "s", "s", "e", "d">>

\* the hyphen, the bullet U+2022 and the asterisk
BulletChars == {"-", "U+2022", "*"}

\* the loop over the response's lines from line k on
RECURSIVE KeyTopicsLoop(_, _, _, _)
KeyTopicsLoop(lines, k, in_topics_section, topics) ==
    IF k > Len(lines) THEN topics
    ELSE LET line == Strip(lines[k])
             topic == Strip(LStripChars(line, BulletChars \cup {" "}))
         IN  IF Contains(ToLower(line), KeyTopicsHeader)
                \/ Contains(ToLower(line), TopicsDiscussedHeader)
             THEN KeyTopicsLoop(lines, k + 1, TRUE, topics)
             ELSE IF in_topics_section /\ StartsWith(line, "#")
             THEN topics
             ELSE IF in_topics_section /\ line # <<>> /\ line[1] \in BulletChars
                     /\ topic # <<>>
             THEN KeyTopicsLoop(lines, k + 1, in_topics_section, Append(topics, topic))
             ELSE KeyTopicsLoop(lines, k + 1, in_topics_section, topics)

_extract_key_topics(summary_text) == KeyTopicsLoop(Split(summary_text), 1, FALSE, <<>>)

\* as summarizer_node, but the message leaves out str(e)
summarizer_node_nocause(st, o) ==
    IF NodeTry(st, o).raised
    THEN [error |-> PyStr(<<"Failed to generate summary">>),
          summary |-> PyNone,
          key_topics |-> <<>>]
    ELSE [summary |-> PyStr(o.text),
          key_topics |-> _extract_key_topics(o.text)]

summarizer_node(st, o) ==
    IF NodeTry(st, o).raised
    THEN [error |-> PyStr(<<"Failed to generate summary: ", NodeTry(st, o).msg>>),
          summary |-> PyNone,
          key_topics |-> <<>>]
    ELSE [summary |-> PyStr(o.text),
          key_topics |-> _extract_key_topics(o.text)]

(***************************************************************************)
(* decisions.py, actions.py: the JSON array in a response                  *)
(*                                                                         *)
(* A response to these two nodes is a sequence of lexemes: "[" and "]",    *)
(* "x" for a stretch of prose, and one lexeme per JSON object (it carries  *)
(* the comma that separates it from its neighbours).                       *)
(***************************************************************************)
JDict(items) == [kind |-> "dict", items |-> items]

JList(items) == [kind |-> "list", items |-> items]

\* the JSON object a lexeme stands for:
\*   {d}  {"decision": "D"}        {t}  {"task": "T"}
\*   {n}  {"decision": null, "task": null}
\*   {p}  {"task": "T", "priority": "urgent"}
ObjectLexemes == {"{d}", "{t}", "{n}", "{p}"}

LexemeValue(tok) ==
    CASE tok = "{d}" -> JDict([decision |-> PyStr(<<"D">>)])
      [] tok = "{t}" -> JDict([task |-> PyStr(<<"T">>)])
      [] tok = "{n}" -> JDict([decision |-> PyNone, task |-> PyNone])
      [] tok = "{p}" -> JDict([task |-> PyStr(<<"T">>),
                               priority |-> PyStr(<<"u", "r", "g", "e", "n", "t">>)])

\* text.find(c), text.rfind(c): 1-based, 0 for not found (Python: 0-based, -1)
Find(text, c) ==
    IF \E i \in 1..Len(text) : text[i] = c
    THEN CHOOSE i \in 1..Len(text) : text[i] = c /\ \A j \in 1..(i - 1) : text[j] # c
    ELSE 0

RFind(text, c) ==
    IF \E i \in 1..Len(text) : text[i] = c
    THEN CHOOSE i \in 1..Len(text) : text[i] = c /\ \A j \in (i + 1)..Len(text) : text[j] # c
    ELSE 0

\* [found |-> FALSE] is None
_extract_json_array(text) ==
    LET start == Find(text, "[")
        end == RFind(text, "]")
    IN  IF start # 0 /\ end # 0 /\ end > start
        THEN [found |-> TRUE, text |-> SubSeq(text, start, end)]
        ELSE [found |-> FALSE, text |-> <<>>]

JsonFail == [ok |-> FALSE, val |-> JList(<<>>), next |-> 0]

\* json.loads: one value from position i; an array is "[" values "]"
RECURSIVE JsonValue(_, _)
RECURSIVE JsonElements(_, _, _)
JsonValue(text, i) ==
    IF i > Len(text) THEN JsonFail
    ELSE IF text[i] \in ObjectLexemes
    THEN [ok |-> TRUE, val |-> LexemeValue(text[i]), next |-> i + 1]
    ELSE IF text[i] = "[" THEN JsonElements(text, i + 1, <<>>)
    ELSE JsonFail

JsonElements(text, i, items) ==
    IF i > Len(text) THEN JsonFail
    ELSE IF text[i] = "]" THEN [ok |-> TRUE, val |-> JList(items), next |-> i + 1]
    ELSE LET v == JsonValue(text, i)
         IN  IF v.ok THEN JsonElements(text, v.next, Append(items, v.val)) ELSE JsonFail

\* ok is FALSE for JSONDecodeError (also raised for data after the value)
json_loads(text) ==
    LET v == JsonValue(text, 1)
    IN  IF v.ok /\ v.next = Len(text) + 1 THEN v ELSE JsonFail

\* item.get(key)
JGet(item, key) == IF key \in DOMAIN item.items THEN item.items[key] ELSE PyNone

\* pydantic: a str field, an Optional[str] field
IsStr(v) == v.type = "str"

IsOptStr(v) == v.type \in {"str", "NoneType"}

(***************************************************************************)
(* decisions.py                                                            *)
(***************************************************************************)
Decision(decision, made_by, context, related_discussion) ==
    [decision |-> decision, made_by |-> made_by, context |-> context,
     related_discussion |-> related_discussion]

\* Decision(...) raises ValidationError unless the fields validate
DecisionValid(d) ==
    IsStr(d.decision) /\ IsOptStr(d.made_by) /\ IsOptStr(d.context)
    /\ IsOptStr(d.related_discussion)

\* for item in data: from item k on; a ValidationError ends the loop in
\* "except Exception" and what was collected is returned
RECURSIVE DecisionsLoop(_, _, _)
DecisionsLoop(data, k, decisions) ==
    IF k > Len(data) THEN decisions
    ELSE IF data[k].kind = "dict" /\ "decision" \in DOMAIN data[k].items
    THEN LET d == Decision(JGet(data[k], "decision"), JGet(data[k], "made_by"),
                           JGet(data[k], "context"), JGet(data[k], "related_discussion"))
         IN  IF DecisionValid(d)
             THEN DecisionsLoop(data, k + 1, Append(decisions, d))
             ELSE decisions
    ELSE DecisionsLoop(data, k + 1, decisions)

_parse_decisions(response) ==
    LET json_str == _extract_json_array(response)
    IN  IF json_str.found /\ json_str.text # <<>>
        THEN IF json_loads(json_str.text).ok
             THEN DecisionsLoop(json_loads(json_str.text).val.items, 1, <<>>)
             ELSE <<>>
        ELSE <<>>

\* as decisions_node, but a response without a JSON array is a failure
decisions_node_strict(st, o) ==
    IF NodeTry(st, o).raised
    THEN [error |-> PyStr(<<"Failed to extract decisions: ", NodeTry(st, o).msg>>),
          decisions |-> <<>>]
    ELSE IF ~_extract_json_array(o.text).found
    THEN [error |-> PyStr(<<"Failed to extract decisions: ", "no JSON array">>),
          decisions |-> <<>>]
    ELSE [decisions |-> _parse_decisions(o.text)]

\* as decisions_node, but the new decisions are added to those in the state
decisions_node_appends(st, o) ==
    IF NodeTry(st, o).raised
    THEN [error |-> PyStr(<<"Failed to extract decisions: ", NodeTry(st, o).msg>>),
          decisions |-> <<>>]
    ELSE [decisions |-> GetList(st, "decisions") \o _parse_decisions(o.text)]

\* as decisions_node, but a failure hands back every analysis field reset
decisions_node_reset(st, o) ==
    IF NodeTry(st, o).raised
    THEN [error |-> PyStr(<<"Failed to extract decisions: ", NodeTry(st, o).msg>>),
          summary |-> PyNone, key_topics |-> <<>>, decisions |-> <<>>]
    ELSE [decisions |-> _parse_decisions(o.text)]

decisions_node(st, o) ==
    IF NodeTry(st, o).raised
    THEN [error |-> PyStr(<<"Failed to extract decisions: ", NodeTry(st, o).msg>>),
          decisions |-> <<>>]
    ELSE [decisions |-> _parse_decisions(o.text)]

(***************************************************************************)
(* actions.py                                                              *)
(***************************************************************************)
ActionItem(task, owner, deadline, priority, context) ==
    [task |-> task, owner |-> owner, deadline |-> deadline,
     priority |-> priority, context |-> context]

ActionItemValid(a) ==
    IsStr(a.task) /\ IsOptStr(a.owner) /\ IsOptStr(a.deadline)
    /\ IsOptStr(a.priority) /\ IsOptStr(a.context)

RECURSIVE ActionItemsLoop(_, _, _)
ActionItemsLoop(data, k, action_items) ==
    IF k > Len(data) THEN action_items
    ELSE IF data[k].kind = "dict" /\ "task" \in DOMAIN data[k].items
    THEN LET a == ActionItem(JGet(data[k], "task"), JGet(data[k], "owner"),
                             JGet(data[k], "deadline"), JGet(data[k], "priority"),
                             JGet(data[k], "context"))
         IN  IF ActionItemValid(a)
             THEN ActionItemsLoop(data, k + 1, Append(action_items, a))
             ELSE action_items
    ELSE ActionItemsLoop(data, k + 1, action_items)

_parse_action_items(response) ==
    LET json_str == _extract_json_array(response)
    IN  IF json_str.found /\ json_str.text # <<>>
        THEN IF json_loads(json_str.text).ok
             THEN ActionItemsLoop(json_loads(json_str.text).val.items, 1, <<>>)
             ELSE <<>>
        ELSE <<>>

\* as actions_node, but a success clears error
actions_node_clears(st, o) ==
    IF NodeTry(st, o).raised
    THEN [error |-> PyStr(<<"Failed to extract action items: ", NodeTry(st, o).msg>>),
          action_items |-> <<>>]
    ELSE [error |-> PyNone, action_items |-> _parse_action_items(o.text)]

actions_node(st, o) ==
    IF NodeTry(st, o).raised
    THEN [error |-> PyStr(<<"Failed to extract action items: ", NodeTry(st, o).msg>>),
          action_items |-> <<>>]
    ELSE [action_items |-> _parse_action_items(o.text)]

(***************************************************************************)
(* state.py: AgentState; graph.py: the graph and MeetingAnalyzer.analyze   *)
(***************************************************************************)
\* A state and a partial update are functions from the keys present to their
\* values (AgentState is a TypedDict with total=False).
InputFields == {"meeting_id", "meeting_title", "raw_transcript"}

\* the fields each node produces (state.py groups them by node)
Owned ==
    [parser |-> {"parsed_transcript", "participants"},
     summarizer |-> {"summary", "key_topics"},
     decisions |-> {"decisions"},
     actions |-> {"action_items"}]

\* as Merge, but with an adding reducer on error and on the lists
MergeAdd(st, update) ==
    [k \in DOMAIN st \cup DOMAIN update |->
        IF k \notin DOMAIN update THEN st[k]
        ELSE IF k \notin DOMAIN st THEN update[k]
        ELSE IF k \in {"participants", "key_topics", "decisions", "action_items"}
        THEN st[k] \o update[k]
        ELSE IF k = "error" /\ st[k].type = "str" /\ update[k].type = "str"
        THEN PyStr(st[k].val \o update[k].val)
        ELSE update[k]]

\* No key of AgentState names a reducer, so the graph keeps the last value
\* written to a key: an update replaces the keys it holds and no others.
Merge(st, update) ==
    [k \in DOMAIN st \cup DOMAIN update |->
        IF k \in DOMAIN update THEN update[k] ELSE st[k]]

initial_state(meeting_id, meeting_title, raw_transcript) ==
    [meeting_id |-> meeting_id,
     meeting_title |-> meeting_title,
     raw_transcript |-> raw_transcript,
     parsed_transcript |-> PyNone,
     participants |-> <<>>,
     summary |-> PyNone,
     key_topics |-> <<>>,
     decisions |-> <<>>,
     action_items |-> <<>>,
     error |-> PyNone]

END == "__end__"

\* workflow.set_entry_point
EntryPoint == "parser"

\* as Edges, but the summarizer's edge leads past the decisions node
EdgesSkip ==
    {<<"parser", "summarizer">>, <<"summarizer", "actions">>,
     <<"decisions", "actions">>, <<"actions", END>>}

\* as Edges, but the parser's edge fans out to the summarizer and the
\* decisions node
EdgesFan ==
    {<<"parser", "summarizer">>, <<"parser", "decisions">>,
     <<"summarizer", "actions">>, <<"decisions", "actions">>, <<"actions", END>>}

\* workflow.add_edge
Edges ==
    {<<"parser", "summarizer">>, <<"summarizer", "decisions">>,
     <<"decisions", "actions">>, <<"actions", END>>}

\* as NextNode, but a node that set error is followed by END
NextNodeStopOnError(node) ==
    IF state'.error # PyNone THEN END
    ELSE CHOOSE m \in {e[2] : e \in Edges} : <<node, m>> \in Edges

NextNode(node) == CHOOSE m \in {e[2] : e \in Edges} : <<node, m>> \in Edges

\* workflow.add_node: the function a node name runs
RunNode(node, st, o) ==
    CASE node = "parser" -> parser_node(st)
      [] node = "summarizer" -> summarizer_node(st, o)
      [] node = "decisions" -> decisions_node(st, o)
      [] node = "actions" -> actions_node(st, o)

(***************************************************************************)
(* Inputs                                                                  *)
(***************************************************************************)
MeetingIds == {"m1", "m2"}

MeetingTitles == {"Standup"}

\* "[00:00] Alice: Hello team\nBob: hi there\nmore text"
TranscriptA ==
        <<"[", "0", "0", ":", "0", "0", "]", " ", "A", "l", "i", "c", "e",
          ":", " ", "H", "e", "l", "l", "o", " ", "t", "e", "a", "m", "\n",
          "B", "o", "b", ":", " ", "h", "i", " ", "t", "h", "e", "r", "e",
          "\n", "m", "o", "r", "e", " ", "t", "e", "x", "t">>

\* "Just some text"
TranscriptB ==
        <<"J", "u", "s", "t", " ", "s", "o", "m", "e", " ", "t", "e", "x",
          "t">>

\* "Al (1:05): ok"
TranscriptC ==
        <<"A", "l", " ", "(", "1", ":", "0", "5", ")", ":", " ", "o", "k">>

\* analyze() does not check the type of what it is given; " \n" is a
\* transcript of blank lines only
RawTranscripts ==
    {PyStr(TranscriptA), PyStr(TranscriptB), PyStr(<<>>), PyStr(<<" ", "\n">>),
     PyNone, PyBytes(TranscriptC)}

\* "## Summary\nAll good\n## Key Topics\n- Budget\n* Hiring\n- \n# End\n- no"
SummaryA ==
        <<"#", "#", " ", "S", "u", "m", "m", "a", "r", "y", "\n", "A", "l",
          "l", " ", "g", "o", "o", "d", "\n", "#", "#", " ", "K", "e", "y",
          " ", "T", "o", "p", "i", "c", "s", "\n", "-", " ", "B", "u", "d",
          "g", "e", "t", "\n", "*", " ", "H", "i", "r", "i", "n", "g",
          "\n", "-", " ", "\n", "#", " ", "E", "n", "d", "\n", "-", " ",
          "n", "o">>

\* "Short recap"
SummaryB ==
        <<"S", "h", "o", "r", "t", " ", "r", "e", "c", "a", "p">>

\* "TOPICS DISCUSSED\n-  Plan "
SummaryC ==
        <<"T", "O", "P", "I", "C", "S", " ", "D", "I", "S", "C", "U", "S",
          "S", "E", "D", "\n", "-", " ", " ", "P", "l", "a", "n", " ">>

LLMFailures ==
    {Unavailable("The api_key client option must be set"),
     Raises("Connection error."), Raises("Request timed out.")}

SummaryOutcomes ==
    LLMFailures \cup {Response(SummaryA), Response(SummaryB), Response(SummaryC)}

Lexemes == {"[", "]", "x", "{d}", "{t}"}

\* the longest response to the decisions and actions nodes
MaxResponseLen == 3

JsonResponses == UNION {[1..n -> Lexemes] : n \in 0..MaxResponseLen}

JsonOutcomes == LLMFailures \cup {Response(text) : text \in JsonResponses}

\* the parser node calls no collaborator
NoOutcome == Response(<<>>)

\* the scripted collaborator of a run that is repeated
RerunSummaryOutcomes == {Unavailable("The api_key client option must be set"),
                         Response(SummaryA), Response(SummaryB)}

RerunJsonOutcomes ==
    {Raises("Connection error."), Response(<<"x">>),
     Response(<<"[", "{d}", "{t}", "]">>), Response(<<"x", "[", "{t}", "]", "x">>)}

Plans ==
    [summarizer : RerunSummaryOutcomes, decisions : RerunJsonOutcomes,
     actions : RerunJsonOutcomes]

(***************************************************************************)
(* The run of analyze()                                                    *)
(***************************************************************************)
\* whether the node's except branch is taken, and with which str(e)
TryOf(node, st, o) == IF node = "parser" THEN ParserTry(st) ELSE NodeTry(st, o)

\* what the response's JSON came to, for the two nodes that look for it
JsonStatus(node, st, o) ==
    IF node \notin {"decisions", "actions"} \/ TryOf(node, st, o).raised THEN "n/a"
    ELSE IF ~_extract_json_array(o.text).found THEN "no_array"
    ELSE IF ~json_loads(_extract_json_array(o.text).text).ok THEN "invalid"
    ELSE "parsed"

\* the record of one invocation
Call(node, st, o) ==
    [node |-> node,
     update |-> RunNode(node, st, o),
     failed |-> TryOf(node, st, o).raised,
     cause |-> TryOf(node, st, o).msg,
     outcome |-> IF node = "parser" THEN "n/a" ELSE o.kind,
     outcome_msg |-> IF node = "parser" THEN "" ELSE o.msg,
     json |-> JsonStatus(node, st, o),
     transcript |-> IF node = "parser" \/ TranscriptOf(st).type = "NoneType"
                    THEN PyNone ELSE PromptOf(st).transcript]

Analyze(meeting_id, meeting_title, raw_transcript) ==
    /\ pc = "idle"
    /\ run = 0
    /\ args' = <<meeting_id, meeting_title, raw_transcript>>
    /\ state' = initial_state(meeting_id, meeting_title, raw_transcript)
    /\ calls' = <<>>
    /\ run' = run + 1
    /\ pc' = EntryPoint
    /\ UNCHANGED <<returned, plan>>

\* the graph runs a node on the state and merges what it returns
Invoke(node, o) ==
    /\ state' = Merge(state, RunNode(node, state, o))
    /\ calls' = Append(calls, Call(node, state, o))
    /\ pc' = NextNode(node)
    /\ UNCHANGED <<args, returned, run, plan>>

Parser ==
    /\ pc = "parser"
    /\ Invoke("parser", NoOutcome)

Summarizer(o) ==
    /\ pc = "summarizer"
    /\ Invoke("summarizer", o)

Decisions(o) ==
    /\ pc = "decisions"
    /\ Invoke("decisions", o)

Actions(o) ==
    /\ pc = "actions"
    /\ Invoke("actions", o)

\* ainvoke returns the final state and analyze returns it
Return ==
    /\ pc = END
    /\ returned' = Append(returned, state)
    /\ pc' = "idle"
    /\ UNCHANGED <<state, args, calls, run, plan>>

Init ==
    /\ pc = "idle"
    /\ state = <<>>
    /\ args = <<>>
    /\ calls = <<>>
    /\ returned = <<>>
    /\ run = 0
    /\ plan = <<>>

Next ==
    \/ \E id \in MeetingIds, title \in MeetingTitles, raw \in RawTranscripts :
          Analyze(id, title, raw)
    \/ Parser
    \/ \E o \in SummaryOutcomes : Summarizer(o)
    \/ \E o \in JsonOutcomes : Decisions(o)
    \/ \E o \in JsonOutcomes : Actions(o)
    \/ Return

Spec == Init /\ [][Next]_vars

(***************************************************************************)
(* A repeated run: analyze() is called a second time with the same         *)
(* arguments and the collaborator answers each node as it did before.      *)
(***************************************************************************)
Reanalyze ==
    /\ pc = "idle"
    /\ run = 1
    /\ Len(returned) = 1
    /\ state' = initial_state(args[1], args[2], args[3])
    /\ calls' = <<>>
    /\ run' = run + 1
    /\ pc' = EntryPoint
    /\ UNCHANGED <<args, returned, plan>>

InitRerun ==
    /\ pc = "idle"
    /\ state = <<>>
    /\ args = <<>>
    /\ calls = <<>>
    /\ returned = <<>>
    /\ run = 0
    /\ plan \in Plans

NextRerun ==
    \/ \E id \in MeetingIds, title \in MeetingTitles, raw \in RawTranscripts :
          Analyze(id, title, raw)
    \/ Parser
    \/ Summarizer(plan.summarizer)
    \/ Decisions(plan.decisions)
    \/ Actions(plan.actions)
    \/ Return
    \/ Reanalyze

SpecRerun == InitRerun /\ [][NextRerun]_vars

(***************************************************************************)
(* The parser on transcripts made of lines: analyze() is given a transcript *)
(* of up to MaxLines lines and the parser node runs on it.                  *)
(***************************************************************************)
\* "[0:01] Al: hi", "0:02 - Bo: ok", "Al (1:05): ok", "Bo: hi", "more", "",
\* "[0:01] : x", "a:b (1:05): c", "Unknown: x"
LineSet ==
    {<<"[", "0", ":", "0", "1", "]", " ", "A", "l", ":", " ", "h", "i">>,
     <<"0", ":", "0", "2", " ", "-", " ", "B", "o", ":", " ", "o", "k">>,
     <<"A", "l", " ", "(", "1", ":", "0", "5", ")", ":", " ", "o", "k">>,
     <<"B", "o", ":", " ", "h", "i">>,
     <<"m", "o", "r", "e">>,
     <<>>,
     <<"[", "0", ":", "0", "1", "]", " ", ":", " ", "x">>,
     <<"a", ":", "b", " ", "(", "1", ":", "0", "5", ")", ":", " ", "c">>,
     <<"U", "n", "k", "n", "o", "w", "n", ":", " ", "x">>}

\* the most lines a transcript has
MaxLines == 2

LineTranscripts == UNION {[1..n -> LineSet] : n \in 0..MaxLines}

AnalyzeLines ==
    \E lines \in LineTranscripts :
        Analyze("m1", "Standup", PyStr(Join(<<"\n">>, lines)))

NextParse ==
    \/ AnalyzeLines
    \/ Parser

SpecParse == Init /\ [][NextParse]_vars

(***************************************************************************)
(* The two extracting nodes on responses of every shape: one run in which  *)
(* the decisions node and the actions node are both answered with the      *)
(* response the plan holds.                                                *)
(***************************************************************************)
ExtractLexemes == {"[", "]", "x"} \cup ObjectLexemes

ExtractResponses == UNION {[1..n -> ExtractLexemes] : n \in 0..MaxResponseLen}

ExtractPlans ==
    {[summarizer |-> Response(SummaryB), decisions |-> Response(text),
      actions |-> Response(text)] : text \in ExtractResponses}

InitExtract ==
    /\ pc = "idle"
    /\ state = <<>>
    /\ args = <<>>
    /\ calls = <<>>
    /\ returned = <<>>
    /\ run = 0
    /\ plan \in ExtractPlans

NextExtract ==
    \/ Analyze("m1", "Standup", PyStr(TranscriptB))
    \/ Parser
    \/ Summarizer(plan.summarizer)
    \/ Decisions(plan.decisions)
    \/ Actions(plan.actions)
    \/ Return

SpecExtract == InitExtract /\ [][NextExtract]_vars

(***************************************************************************)
(* Concurrent requests.  Every variable is here a function of the request: *)
(* each call of analyze() has its own initial_state, and graph.ainvoke()    *)
(* runs it in supersteps: the nodes an edge has triggered run as tasks on   *)
(* the state as it was when the superstep began, a task that reaches        *)
(* "await llm_service.chat(messages)" is suspended until the call ends, and *)
(* when all tasks are done their updates are merged and the nodes their     *)
(* edges lead to are triggered.                                            *)
(***************************************************************************)
Requests == {"r1", "r2"}

\* the call is awaited and never resumes
Hangs == [kind |-> "hangs", msg |-> "", text |-> <<>>]

ConcTranscripts == {PyStr(TranscriptA), PyBytes(TranscriptC)}

ConcPlans ==
    {[summarizer |-> Response(SummaryB), decisions |-> Response(<<"[", "{d}", "]">>),
      actions |-> Response(<<"[", "{t}", "{p}", "]">>)],
     [summarizer |-> Raises("Connection error."), decisions |-> Response(<<"x">>),
      actions |-> Unavailable("The api_key client option must be set")],
     [summarizer |-> Response(SummaryA), decisions |-> Hangs,
      actions |-> Response(<<"[", "{t}", "]">>)]}

\* as StateOf, but the state is kept in one place for all requests
StateOf_shared(r) ==
    IF \E q \in Requests : run[q] > 0 /\ pc[q].phase # "returned"
    THEN state[CHOOSE q \in Requests : run[q] > 0 /\ pc[q].phase # "returned"]
    ELSE state[r]

\* the state the tasks of request r read: the one its analyze() call made
StateOf(r) == state[r]

OutcomeFor(r, node) == IF node = "parser" THEN NoOutcome ELSE plan[r][node]

\* the task gets as far as awaiting the collaborator's call
ReachesCall(r, node) ==
    /\ node # "parser"
    /\ OutcomeFor(r, node).kind # "unavailable"
    /\ TranscriptOf(StateOf(r)).type # "NoneType"

\* the nodes the edges from the nodes of S lead to
Successors(S) == {e[2] : e \in {d \in Edges : d[1] \in S}} \ {END}

\* the updates of the last k recorded calls merged into st, in order
RECURSIVE MergeCalls(_, _, _)
MergeCalls(st, cs, k) ==
    IF k = 0 THEN st
    ELSE MergeCalls(Merge(st, cs[Len(cs) - k + 1].update), cs, k - 1)

ConcAnalyze(r, raw_transcript) ==
    /\ pc[r].phase = "idle"
    /\ args' = [args EXCEPT ![r] = <<r, "Standup", raw_transcript>>]
    /\ state' = [state EXCEPT ![r] = initial_state(r, "Standup", raw_transcript)]
    /\ run' = [run EXCEPT ![r] = 1]
    /\ pc' = [pc EXCEPT ![r] = [phase |-> "step", tasks |-> [n \in {EntryPoint} |-> "ready"]]]
    /\ UNCHANGED <<calls, returned, plan>>

\* a task that makes no collaborator call runs to its return
TaskRun(r, node) ==
    /\ pc[r].phase = "step"
    /\ node \in DOMAIN pc[r].tasks
    /\ pc[r].tasks[node] = "ready"
    /\ ~ReachesCall(r, node)
    /\ calls' = [calls EXCEPT ![r] = Append(@, Call(node, StateOf(r), OutcomeFor(r, node)))]
    /\ pc' = [pc EXCEPT ![r].tasks[node] = "done"]
    /\ UNCHANGED <<state, args, returned, run, plan>>

\* response = await llm_service.chat(messages): the task is suspended
BeginCall(r, node) ==
    /\ pc[r].phase = "step"
    /\ node \in DOMAIN pc[r].tasks
    /\ pc[r].tasks[node] = "ready"
    /\ ReachesCall(r, node)
    /\ pc' = [pc EXCEPT ![r].tasks[node] = "calling"]
    /\ UNCHANGED <<state, args, calls, returned, run, plan>>

\* the call returns or raises and the task runs to its return
EndCall(r, node) ==
    /\ pc[r].phase = "step"
    /\ node \in DOMAIN pc[r].tasks
    /\ pc[r].tasks[node] = "calling"
    /\ OutcomeFor(r, node).kind # "hangs"
    /\ calls' = [calls EXCEPT ![r] = Append(@, Call(node, StateOf(r), OutcomeFor(r, node)))]
    /\ pc' = [pc EXCEPT ![r].tasks[node] = "done"]
    /\ UNCHANGED <<state, args, returned, run, plan>>

\* all tasks of the superstep are done: their updates are merged and the
\* next nodes are triggered, or the graph has come to END
Superstep(r) ==
    /\ pc[r].phase = "step"
    /\ \A n \in DOMAIN pc[r].tasks : pc[r].tasks[n] = "done"
    /\ state' = [state EXCEPT ![r] =
                    MergeCalls(state[r], calls[r], Cardinality(DOMAIN pc[r].tasks))]
    /\ pc' = [pc EXCEPT ![r] =
                 IF Successors(DOMAIN pc[r].tasks) = {}
                 THEN [phase |-> "end", tasks |-> <<>>]
                 ELSE [phase |-> "step",
                       tasks |-> [n \in Successors(DOMAIN pc[r].tasks) |-> "ready"]]]
    /\ UNCHANGED <<args, calls, returned, run, plan>>

ConcReturn(r) ==
    /\ pc[r].phase = "end"
    /\ returned' = [returned EXCEPT ![r] = Append(@, state[r])]
    /\ pc' = [pc EXCEPT ![r].phase = "returned"]
    /\ UNCHANGED <<state, args, calls, run, plan>>

InitConc ==
    /\ pc = [r \in Requests |-> [phase |-> "idle", tasks |-> <<>>]]
    /\ state = [r \in Requests |-> <<>>]
    /\ args = [r \in Requests |-> <<>>]
    /\ calls = [r \in Requests |-> <<>>]
    /\ returned = [r \in Requests |-> <<>>]
    /\ run = [r \in Requests |-> 0]
    /\ plan \in [Requests -> ConcPlans]

\* the steps of request r
StepOf(r) ==
    \/ \E raw \in ConcTranscripts : ConcAnalyze(r, raw)
    \/ \E node \in DOMAIN Owned : TaskRun(r, node)
    \/ \E node \in DOMAIN Owned : BeginCall(r, node)
    \/ \E node \in DOMAIN Owned : EndCall(r, node)
    \/ Superstep(r)
    \/ ConcReturn(r)

NextConc == \E r \in Requests : StepOf(r)

SpecConc == InitConc /\ [][NextConc]_vars

(***************************************************************************)
(* parse_transcript line by line: one step per iteration of the loop over  *)
(* the lines.  args holds the transcript, plan the lines still to scan,     *)
(* state the loop's variables, calls what the classifier gave for each line *)
(* scanned so far, returned the list the function returns.                  *)
(***************************************************************************)
\* "[0:01] Al: hi", "0:02 - Bo: ok", "Bo: hi", "more", "", "a:b (1:05): c",
\* "Al: x (1:05): y", "Al: ", "0:02 (en dash) Bo: ok", "0:02 (em dash) Bo: ok"
ScanLineSet ==
    {<<"[", "0", ":", "0", "1", "]", " ", "A", "l", ":", " ", "h", "i">>,
     <<"0", ":", "0", "2", " ", "-", " ", "B", "o", ":", " ", "o", "k">>,
     <<"B", "o", ":", " ", "h", "i">>,
     <<"m", "o", "r", "e">>,
     <<>>,
     <<"a", ":", "b", " ", "(", "1", ":", "0", "5", ")", ":", " ", "c">>,
     <<"A", "l", ":", " ", "x", " ", "(", "1", ":", "0", "5", ")", ":", " ", "y">>,
     <<"A", "l", ":", " ">>,
     <<"0", ":", "0", "2", " ", "U+2013", " ", "B", "o", ":", " ", "o", "k">>,
     <<"0", ":", "0", "2", " ", "U+2014", " ", "B", "o", ":", " ", "o", "k">>}

\* the most lines a scanned transcript has
MaxScanLines == 3

ScanTranscripts == UNION {[1..n -> ScanLineSet] : n \in 0..MaxScanLines}

\* parse_transcript is called; the loop's variables are set up
ScanBegin ==
    /\ pc = "idle"
    /\ run = 0
    /\ \E lines \in ScanTranscripts :
          /\ args' = <<Join(<<"\n">>, lines)>>
          /\ plan' = Split(Join(<<"\n">>, lines))
    /\ state' = [segments |-> <<>>, current_speaker |-> Unknown,
                 current_timestamp |-> ZeroTime]
    /\ calls' = <<>>
    /\ run' = run + 1
    /\ pc' = "scan"
    /\ UNCHANGED returned

\* one iteration of the loop
ScanLine ==
    /\ pc = "scan"
    /\ plan # <<>>
    /\ state' = ParseLineStep(state, Head(plan))
    /\ calls' = Append(calls, [line |-> Head(plan),
                               parsed |-> parse_transcript_line(Head(plan))])
    /\ plan' = Tail(plan)
    /\ UNCHANGED <<pc, args, returned, run>>

\* the loop is over: return segments
ScanReturn ==
    /\ pc = "scan"
    /\ plan = <<>>
    /\ returned' = Append(returned, state.segments)
    /\ pc' = "scanned"
    /\ UNCHANGED <<state, args, calls, run, plan>>

NextScan ==
    \/ ScanBegin
    \/ ScanLine
    \/ ScanReturn

SpecScan == Init /\ [][NextScan]_vars

(***************************************************************************)
(* api/routes.py: the meeting store, upload_transcript and analyze_meeting. *)
(* state is meetings_db; pc, args, plan, calls and returned are kept per     *)
(* client request; run counts the meeting ids given out.  plan is the       *)
(* collaborator's script for a client's analysis; calls records, for an     *)
(* analysis, the clients whose analysis was awaited when it was called and  *)
(* the final state analyzer.analyze returned to it.                         *)
(***************************************************************************)
Clients == {"c1", "c2", "c3"}

\* str(uuid.uuid4()): a new id at every call
Uuids == <<"m1", "m2", "m3">>

\* an id no upload was given
MissingId == "m0"

Meeting(id, title, raw_transcript, segments, participants) ==
    [id |-> id, title |-> title, raw_transcript |-> raw_transcript,
     segments |-> segments, participants |-> participants,
     summary |-> PyNone, key_topics |-> <<>>, decisions |-> <<>>,
     action_items |-> <<>>]

\* the most uploads made
MaxUploads == 2

\* "Al: hi\nBo: ok", "more\nBo: hi"
UploadTranscripts ==
    {<<"A", "l", ":", " ", "h", "i", "\n", "B", "o", ":", " ", "o", "k">>,
     <<"m", "o", "r", "e", "\n", "B", "o", ":", " ", "h", "i">>}

\* get_chroma_store() raising, add_meeting raising, add_meeting returning
VectorOutcomes ==
    {Unavailable("The api_key client option must be set"),
     Raises("Connection error."), Response(<<>>)}

RoutePlans ==
    {[summarizer |-> Response(SummaryB), decisions |-> Response(<<"[", "{d}", "]">>),
      actions |-> Response(<<"[", "{t}", "{p}", "]">>)],
     [summarizer |-> Response(SummaryA), decisions |-> Raises("Connection error."),
      actions |-> Response(<<"[", "{t}", "]">>)]}

\* list(S) of a set S: the order of the elements is the set's iteration
\* order, which is not fixed
Orderings(S) ==
    {seq \in [1..Cardinality(S) -> S] : \A i, j \in 1..Cardinality(S) : i # j => seq[i] # seq[j]}

\* {seg.speaker for seg in segments if seg.speaker}
UploadSpeakers(segments) ==
    {segments[n].speaker : n \in {m \in 1..Len(segments) : segments[m].speaker # <<>>}}

HTTPException(status_code, detail) == [status_code |-> status_code, detail |-> detail]

\* POST /transcripts/upload
upload_transcript(c, transcript, o) ==
    /\ pc[c] = "idle"
    /\ run < MaxUploads
    /\ LET meeting_id == Uuids[run + 1]
           segments == parse_transcript(transcript)
       IN  \E participants \in Orderings(UploadSpeakers(segments)) :
              LET meeting == Meeting(meeting_id, "Standup", transcript, segments, participants)
              IN  /\ state' = [id \in DOMAIN state \cup {meeting_id} |->
                                  IF id = meeting_id THEN meeting ELSE state[id]]
                  /\ returned' = [returned EXCEPT ![c] =
                        IF o.kind = "response"
                        THEN [status_code |-> 200,
                              meeting_id |-> meeting_id,
                              segment_count |-> Len(segments),
                              participants |-> participants]
                        ELSE HTTPException(500, o.msg)]
                  /\ args' = [args EXCEPT ![c] =
                        [op |-> "upload", meeting_id |-> meeting_id, transcript |-> transcript]]
    /\ run' = run + 1
    /\ pc' = [pc EXCEPT ![c] = "done"]
    /\ UNCHANGED <<calls, plan>>

\* graph.ainvoke(initial_state) as a whole, the collaborator answering by the
\* script p
RECURSIVE RunFrom(_, _, _)
RunFrom(node, st, p) ==
    IF node = END THEN st
    ELSE RunFrom(NextNode(node),
                 Merge(st, RunNode(node, st, IF node = "parser" THEN NoOutcome ELSE p[node])),
                 p)

\* analyzer.analyze(meeting_id, meeting_title, raw_transcript)
analyze(meeting_id, meeting_title, raw_transcript, p) ==
    RunFrom(EntryPoint, initial_state(meeting_id, meeting_title, PyStr(raw_transcript)), p)

\* as CacheUpdate, but decisions and action items already cached are kept
CacheUpdate_keeps(meeting, result) ==
    [meeting EXCEPT !.summary = result.summary,
                    !.key_topics = result.key_topics,
                    !.decisions = IF @ = <<>> THEN result.decisions ELSE @,
                    !.action_items = IF @ = <<>> THEN result.action_items ELSE @]

\* meeting.summary = result.get("summary") and the three assignments after it
CacheUpdate(meeting, result) ==
    [meeting EXCEPT !.summary = result.summary,
                    !.key_topics = result.key_topics,
                    !.decisions = result.decisions,
                    !.action_items = result.action_items]

\* the dict analyze_meeting returns; model_dump() of a Decision or an
\* ActionItem is the dict of its fields, which is what the record holds
AnalysisResponse(meeting_id, meeting) ==
    [status_code |-> 200,
     meeting_id |-> meeting_id,
     summary |-> [overview |-> meeting.summary,
                  key_topics |-> meeting.key_topics,
                  decisions |-> meeting.decisions,
                  action_items |-> meeting.action_items]]

\* POST /meetings/{id}/analyze for an id the store does not hold
AnalyzeMissing(c, meeting_id) ==
    /\ pc[c] = "idle"
    /\ meeting_id \notin DOMAIN state
    /\ args' = [args EXCEPT ![c] = [op |-> "analyze", meeting_id |-> meeting_id]]
    /\ returned' = [returned EXCEPT ![c] = HTTPException(404, "Meeting not found")]
    /\ pc' = [pc EXCEPT ![c] = "done"]
    /\ UNCHANGED <<state, calls, run, plan>>

\* POST /meetings/{id}/analyze up to the await of analyzer.analyze; p is what
\* the collaborator will answer during this analysis
AnalyzeCall(c, meeting_id, p) ==
    /\ pc[c] = "idle"
    /\ meeting_id \in DOMAIN state
    /\ args' = [args EXCEPT ![c] = [op |-> "analyze", meeting_id |-> meeting_id]]
    /\ plan' = [plan EXCEPT ![c] = p]
    /\ calls' = [calls EXCEPT ![c] =
                    [concurrent |-> {d \in Clients : pc[d] = "awaiting"}, result |-> <<>>]]
    /\ pc' = [pc EXCEPT ![c] = "awaiting"]
    /\ UNCHANGED <<state, returned, run>>

\* analyzer.analyze returns: the meeting is updated and the response built.
\* No await stands between the await of analyze and the return, so the
\* event loop runs this part of the handler without switching to another.
AnalyzeResume(c) ==
    /\ pc[c] = "awaiting"
    /\ LET meeting_id == args[c].meeting_id
           meeting == state[meeting_id]
           result == analyze(meeting_id, meeting.title, meeting.raw_transcript, plan[c])
       IN  /\ calls' = [calls EXCEPT ![c].result = result]
           /\ state' = [state EXCEPT ![meeting_id] = CacheUpdate(meeting, result)]
           /\ returned' = [returned EXCEPT ![c] =
                               AnalysisResponse(meeting_id, CacheUpdate(meeting, result))]
    /\ pc' = [pc EXCEPT ![c] = "done"]
    /\ UNCHANGED <<args, run, plan>>

InitRoutes ==
    /\ pc = [c \in Clients |-> "idle"]
    /\ state = <<>>
    /\ args = [c \in Clients |-> <<>>]
    /\ calls = [c \in Clients |-> <<>>]
    /\ returned = [c \in Clients |-> <<>>]
    /\ run = 0
    /\ plan = [c \in Clients |-> <<>>]

NextRoutes ==
    \E c \in Clients :
        \/ \E transcript \in UploadTranscripts, o \in VectorOutcomes :
              upload_transcript(c, transcript, o)
        \/ AnalyzeMissing(c, MissingId)
        \/ \E meeting_id \in {Uuids[n] : n \in 1..Len(Uuids)}, p \in RoutePlans :
              AnalyzeCall(c, meeting_id, p)
        \/ AnalyzeResume(c)

SpecRoutes == InitRoutes /\ [][NextRoutes]_vars

(***************************************************************************)
(* Properties                                                              *)
(***************************************************************************)
Order == <<"parser", "summarizer", "decisions", "actions">>

NodesCalled == [n \in 1..Len(calls) |-> calls[n].node]

\* a run has begun, so state holds a graph state
Running == run > 0

\* the run's last node has returned
Finished == Running /\ pc \in {END, "idle"}

\* this step is a node invocation
Invoked == Len(calls') = Len(calls) + 1

LastReturned == returned[Len(returned)]

\* the initial state with the recorded updates merged in, one after the other
RECURSIVE MergedUpTo(_)
MergedUpTo(n) ==
    IF n = 0 THEN initial_state(args[1], args[2], args[3])
    ELSE Merge(MergedUpTo(n - 1), calls[n].update)

\* what a failed node's message begins with
FailurePrefix ==
    [parser |-> "Failed to parse transcript: ",
     summarizer |-> "Failed to generate summary: ",
     decisions |-> "Failed to extract decisions: ",
     actions |-> "Failed to extract action items: "]

\* C1: in every run the four nodes are invoked once each in the order
\* parser, summarizer, decisions, actions, a failed node is not run again,
\* and what analyze() returns is the initial state with the four updates
\* merged in, in that order.
C1_FixedOrderOnce ==
    /\ Running => /\ Len(calls) <= Len(Order)
                  /\ NodesCalled = SubSeq(Order, 1, Len(calls))
    /\ Finished => NodesCalled = Order
    /\ (Running /\ pc = "idle") => /\ Len(returned) = run
                                   /\ LastReturned = MergedUpTo(Len(Order))

C1_Witness ==
    /\ Running /\ pc = "idle" /\ returned # <<>>
    /\ \E n \in 1..Len(calls) : calls[n].failed

\* C2: whichever nodes fail, the node after a failed one is the next to run,
\* all four have run when the run ends, and the state returned holds the
\* keys summary, decisions and action_items.
C2_FailureSkipsNothing ==
    /\ (Running /\ pc # "idle") =>
          pc = IF Len(calls) < Len(Order) THEN Order[Len(calls) + 1] ELSE END
    /\ (Finished /\ \E n \in 1..Len(calls) : calls[n].failed) => Len(calls) = Len(Order)
    /\ (Running /\ pc = "idle") =>
          {"summary", "decisions", "action_items"} \subseteq DOMAIN LastReturned

C2_Witness ==
    /\ Running /\ pc = "idle" /\ returned # <<>>
    /\ calls[1].node = "parser" /\ calls[1].failed
    /\ Len(calls) = Len(Order)
    /\ ~calls[2].failed
    /\ LastReturned.summary # PyNone

\* C3: a step in which a node fails changes no key of the state other than
\* the failing node's own fields and error, and removes none.
C3_FailureFrame ==
    [][(Invoked /\ calls'[Len(calls')].failed) =>
          /\ DOMAIN state \subseteq DOMAIN state'
          /\ \A k \in DOMAIN state \ (Owned[calls'[Len(calls')].node] \cup {"error"}) :
                state'[k] = state[k]]_vars

C3_Witness ==
    /\ Len(calls) >= 3
    /\ calls[3].failed
    /\ state.summary # PyNone
    /\ state.key_topics # <<>>
    /\ state.participants # <<>>

\* C4 as claimed: a response to the decisions or actions node in which no
\* JSON array is found, or none that parses, gives an empty list and sets
\* error.
C4_Original ==
    [][(Invoked /\ calls'[Len(calls')].json \in {"no_array", "invalid"}) =>
          /\ \A k \in Owned[calls'[Len(calls')].node] : state'[k] = <<>>
          /\ state'.error # PyNone]_vars

\* C4, what the code does with such a response: it gives an empty list and
\* leaves error as it was (the update holds no error key); every other key
\* keeps its value.
C4_NoArrayLeavesError ==
    [][(Invoked /\ calls'[Len(calls')].json \in {"no_array", "invalid"}) =>
          /\ \A k \in Owned[calls'[Len(calls')].node] : state'[k] = <<>>
          /\ "error" \notin DOMAIN calls'[Len(calls')].update
          /\ DOMAIN state' = DOMAIN state
          /\ \A k \in DOMAIN state \ Owned[calls'[Len(calls')].node] :
                state'[k] = state[k]]_vars

C4_Witness ==
    /\ Running /\ pc = "idle" /\ returned # <<>>
    /\ calls[3].json = "no_array"
    /\ calls[4].json = "invalid"
    /\ LastReturned.error = PyNone
    /\ LastReturned.decisions = <<>>
    /\ LastReturned.summary # PyNone
    /\ LastReturned.participants # <<>>

\* C5 as claimed: every collaborator failure, a malformed response included,
\* comes back as an update whose error names the node and the cause.
C5_Original ==
    \A n \in 1..Len(calls) :
        (calls[n].outcome \in {"unavailable", "raises"}
         \/ calls[n].json \in {"no_array", "invalid"}) =>
            /\ "error" \in DOMAIN calls[n].update
            /\ calls[n].update.error = PyStr(<<FailurePrefix[calls[n].node], calls[n].cause>>)

\* C5, the part the code satisfies: every invocation returns an update
\* holding the node's own
\* fields; when the service cannot be had or the call raises, the update's
\* error is the node's prefix followed by the exception's message (the
\* collaborator's own message whenever the call was reached); a response
\* without a usable JSON array is not a failure and sets no error.
C5_FaultsCaught ==
    \A n \in 1..Len(calls) :
        /\ Owned[calls[n].node] \subseteq DOMAIN calls[n].update
        /\ calls[n].outcome \in {"unavailable", "raises"} =>
              /\ calls[n].failed
              /\ "error" \in DOMAIN calls[n].update
              /\ calls[n].update.error =
                    PyStr(<<FailurePrefix[calls[n].node], calls[n].cause>>)
              /\ (calls[n].outcome = "unavailable" \/ calls[n].transcript # PyNone) =>
                    calls[n].cause = calls[n].outcome_msg
        /\ calls[n].json \in {"no_array", "invalid"} =>
              /\ ~calls[n].failed
              /\ "error" \notin DOMAIN calls[n].update

C5_Witness ==
    /\ Len(calls) = Len(Order)
    /\ calls[2].outcome = "unavailable"
    /\ calls[3].outcome = "raises" /\ calls[3].transcript # PyNone
    /\ calls[4].json = "invalid"

FailedCalls == {n \in 1..Len(calls) : calls[n].failed}

LatestFailure == CHOOSE n \in FailedCalls : \A m \in FailedCalls : m <= n

\* C7: during a run error is None while no node has failed, and otherwise it
\* is the message of the latest node that failed, whatever failed or
\* succeeded before or after it; the state returned has error None exactly
\* when no node failed.
C7_ErrorIsLatestFailure ==
    /\ Running =>
          state.error = IF FailedCalls = {} THEN PyNone
                        ELSE PyStr(<<FailurePrefix[calls[LatestFailure].node],
                                     calls[LatestFailure].cause>>)
    /\ (Running /\ pc = "idle") => (LastReturned.error = PyNone <=> FailedCalls = {})

C7_Witness ==
    /\ Running /\ pc = "idle" /\ returned # <<>>
    /\ calls[2].failed /\ calls[3].failed /\ ~calls[4].failed
    /\ calls[2].cause # calls[3].cause

\* C8: the step of a node leaves the state with the keys it had and the
\* update's keys; each key of the update holds exactly the update's value,
\* each other key the value it had.
C8_WholeValueReplacement ==
    [][Invoked =>
          /\ DOMAIN state' = DOMAIN state \cup DOMAIN calls'[Len(calls')].update
          /\ \A k \in DOMAIN calls'[Len(calls')].update :
                state'[k] = calls'[Len(calls')].update[k]
          /\ \A k \in DOMAIN state \ DOMAIN calls'[Len(calls')].update :
                state'[k] = state[k]]_vars

C8_Witness ==
    /\ Len(calls) >= 3
    /\ calls[2].failed /\ calls[3].failed
    /\ calls[2].update.error # calls[3].update.error
    /\ state.error = calls[3].update.error
    /\ state.participants # <<>>

\* C9: the state's meeting_id, meeting_title and raw_transcript are the
\* arguments of analyze() at every point of the run and in what is returned,
\* and no update holds one of these keys.
C9_InputsImmutable ==
    /\ Running =>
          /\ state.meeting_id = args[1]
          /\ state.meeting_title = args[2]
          /\ state.raw_transcript = args[3]
    /\ \A n \in 1..Len(calls) : DOMAIN calls[n].update \cap InputFields = {}
    /\ \A n \in 1..Len(returned) :
          /\ returned[n].meeting_id = args[1]
          /\ returned[n].meeting_title = args[2]
          /\ returned[n].raw_transcript = args[3]

C9_Witness ==
    /\ Running /\ pc = "idle" /\ returned # <<>>
    /\ calls[1].failed
    /\ LastReturned.parsed_transcript = args[3]
    /\ ~calls[4].failed

\* the outcomes the scripted collaborator may give a node
ScriptedOutcomes(node) ==
    CASE node = "parser" -> {NoOutcome}
      [] node = "summarizer" -> RerunSummaryOutcomes
      [] node \in {"decisions", "actions"} -> RerunJsonOutcomes

\* the state after node has run on st with outcome o
After(node, st, o) == Merge(st, RunNode(node, st, o))

\* C10: running a node again, with the same outcome, on the state it has
\* just updated leaves the node's own fields as they are; and a second
\* analyze() with the same arguments and the same outcomes returns the state
\* the first one returned.
C10_RerunSame ==
    /\ Running =>
          \A node \in DOMAIN Owned : \A o \in ScriptedOutcomes(node) :
              LET once == After(node, state, o)
                  twice == After(node, once, o)
              IN  \A k \in Owned[node] : twice[k] = once[k]
    /\ Len(returned) = run /\ run > 1 => returned[run] = returned[1]

C10_Witness ==
    /\ run > 1 /\ Len(returned) = run
    /\ returned[run].decisions # <<>>
    /\ returned[run].key_topics # <<>>
    /\ returned[run].error # PyNone

\* the parser node has run on a str transcript
Parsed1 == Len(calls) >= 1 /\ ~calls[1].failed

\* the segments the parser built for this run's transcript
Segments == parse_transcript(args[3].val)

SpeakersOf(segments) == {segments[n].speaker : n \in 1..Len(segments)}

\* C11 as claimed: participants lists, in ascending order and without
\* duplicates, exactly the distinct segment speakers other than "Unknown".
C11_Original ==
    Parsed1 =>
        /\ \A i \in 1..Len(state.participants) : \A j \in 1..Len(state.participants) :
              i < j => StrLess(state.participants[i], state.participants[j])
        /\ {state.participants[i] : i \in 1..Len(state.participants)} =
              SpeakersOf(Segments) \ {Unknown}

\* C11 as amended: participants lists, in strictly ascending order (so
\* without duplicates), exactly the distinct non-empty segment speakers
\* other than "Unknown"; "Unknown" is never among them.
C11_Participants ==
    Parsed1 =>
        /\ \A i \in 1..Len(state.participants) : \A j \in 1..Len(state.participants) :
              i < j => StrLess(state.participants[i], state.participants[j])
        /\ {state.participants[i] : i \in 1..Len(state.participants)} =
              SpeakersOf(Segments) \ {Unknown, <<>>}
        /\ \A i \in 1..Len(state.participants) : state.participants[i] # Unknown

C11_Witness ==
    /\ Parsed1
    /\ Len(Segments) = 2
    /\ Segments[1].speaker = Unknown
    /\ Segments[2].speaker = <<"B", "o">>
    /\ state.participants = << <<"B", "o">> >>

\* the lines of this run's transcript
InputLines == Split(args[3].val)

\* every line of the transcript matches one of the patterns
AllLinesMatch ==
    \A n \in 1..Len(InputLines) : parse_transcript_line(InputLines[n]).matched

\* C12: when every line of the transcript matches a pattern, the formatted
\* transcript has one line per input line, in input order, and line n reads
\* "[timestamp] speaker: text" with the timestamp, speaker and text the
\* classifier gave for input line n.
C12_OneLinePerLine ==
    (Parsed1 /\ AllLinesMatch) =>
        LET out == Split(state.parsed_transcript.val)
        IN  /\ Len(out) = Len(InputLines)
            /\ \A n \in 1..Len(InputLines) :
                  LET m == parse_transcript_line(InputLines[n])
                  IN  out[n] = <<"[">> \o m.timestamp \o <<"]", " ">> \o m.speaker
                                   \o <<":", " ">> \o m.text

C12_Witness ==
    /\ Parsed1 /\ AllLinesMatch
    /\ Len(InputLines) = 2
    /\ parse_transcript_line(InputLines[1]).speaker = <<"a", ":", "b">>
    /\ parse_transcript_line(InputLines[2]).speaker = <<"B", "o">>
    /\ parse_transcript_line(InputLines[1]).timestamp = <<"1", ":", "0", "5">>
    /\ parse_transcript_line(InputLines[2]).timestamp = ZeroTime

\* C13: formatting the segments built from a transcript and building
\* segments again from the formatted text gives the same segments (speaker,
\* timestamp and text, element by element).
C13_Original ==
    Parsed1 => parse_transcript(state.parsed_transcript.val) = Segments

\* the transcript a node called on the state st is to read, according to
\* C14: parsed_transcript when it is there and not empty, raw_transcript
\* otherwise
Fallback(st) ==
    IF st.parsed_transcript # PyNone /\ st.parsed_transcript.val # <<>>
    THEN st.parsed_transcript
    ELSE st.raw_transcript

\* C14: summarizer, decisions and actions each read parsed_transcript when
\* it is present and not empty and raw_transcript otherwise; after a failed
\* parser node what each of them reads is the raw transcript given to
\* analyze().
C14_TranscriptFallback ==
    \A n \in 2..Len(calls) :
        calls[n].outcome # "unavailable" =>
            /\ calls[n].transcript = Fallback(MergedUpTo(n - 1))
            /\ calls[1].failed => calls[n].transcript = args[3]
            /\ MergedUpTo(n - 1).parsed_transcript \in {PyNone, PyStr(<<>>)} =>
                  calls[n].transcript = args[3]

C14_Witness ==
    /\ Len(calls) = Len(Order)
    /\ calls[1].failed
    /\ \A n \in 2..Len(calls) :
          /\ calls[n].outcome = "response"
          /\ calls[n].transcript = PyBytes(TranscriptC)

\* the decisions or the actions node has been called (with the plan's response)
Extracted(n) == Len(calls) >= n /\ calls[n].node \in {"decisions", "actions"}

ResponseOf(n) == plan[calls[n].node].text

\* where the first "[" and the last "]" of a text are (0: there is none)
FirstOpen(text) ==
    IF \A i \in 1..Len(text) : text[i] # "[" THEN 0
    ELSE CHOOSE i \in 1..Len(text) :
            text[i] = "[" /\ \A j \in 1..Len(text) : text[j] = "[" => i <= j

LastClose(text) ==
    IF \A i \in 1..Len(text) : text[i] # "]" THEN 0
    ELSE CHOOSE i \in 1..Len(text) :
            text[i] = "]" /\ \A j \in 1..Len(text) : text[j] = "]" => j <= i

\* the list the node handed back
ItemsOf(n) == calls[n].update[CHOOSE k \in Owned[calls[n].node] : TRUE]

\* C15: the two extracting nodes parse the part of the response from its
\* first "[" to its last "]"; when there is no "[", no "]", the last "]"
\* comes before the first "[", or that part is not JSON, the node hands back
\* the empty list, does not fail and sets no error.
C15_ExtractOrEmpty ==
    \A n \in 3..Len(calls) :
        Extracted(n) =>
            LET text == ResponseOf(n)
                first == FirstOpen(text)
                last == LastClose(text)
                nothing == /\ ItemsOf(n) = <<>>
                           /\ ~calls[n].failed
                           /\ DOMAIN calls[n].update = Owned[calls[n].node]
            IN  IF first = 0 \/ last = 0 \/ last < first THEN nothing
                ELSE IF ~json_loads(SubSeq(text, first, last)).ok THEN nothing
                ELSE /\ ~calls[n].failed
                     /\ DOMAIN calls[n].update = Owned[calls[n].node]
                     /\ ItemsOf(n) =
                           IF calls[n].node = "decisions"
                           THEN DecisionsLoop(json_loads(SubSeq(text, first, last)).val.items, 1, <<>>)
                           ELSE ActionItemsLoop(json_loads(SubSeq(text, first, last)).val.items, 1, <<>>)

C15_Witness ==
    /\ Len(calls) = Len(Order)
    /\ plan.decisions.text = <<"]", "{d}", "[">>
    /\ state.decisions = <<>>
    /\ state.error = PyNone

\* what a parsed array's elements are to give according to C16: one object
\* for each element that is a mapping holding the required key, in order
RECURSIVE Accepted(_, _)
Accepted(data, key) ==
    IF data = <<>> THEN <<>>
    ELSE IF data[1].kind = "dict" /\ key \in DOMAIN data[1].items
    THEN <<data[1]>> \o Accepted(Tail(data), key)
    ELSE Accepted(Tail(data), key)

RequiredKey(n) == IF calls[n].node = "decisions" THEN "decision" ELSE "task"

\* C16: when the array parses, the node hands back exactly one object for
\* each element that is a mapping holding the required key, in array order,
\* with the element's own values and nothing set for the keys it lacks; no
\* element makes another element go missing.
C16_Original ==
    \A n \in 3..Len(calls) :
        (Extracted(n) /\ calls[n].json = "parsed") =>
            LET text == ResponseOf(n)
                data == json_loads(SubSeq(text, FirstOpen(text), LastClose(text))).val.items
                want == Accepted(data, RequiredKey(n))
            IN  /\ Len(ItemsOf(n)) = Len(want)
                /\ \A k \in 1..Len(want) : \A f \in DOMAIN ItemsOf(n)[k] :
                      ItemsOf(n)[k][f] = JGet(want[k], f)

\* C17: the priority of every action item in the state is "high", "medium",
\* "low" or None.
C17_Original ==
    Running =>
        \A k \in 1..Len(state.action_items) :
            state.action_items[k].priority \in
                {PyNone, PyStr(<<"h", "i", "g", "h">>), PyStr(<<"l", "o", "w">>),
                 PyStr(<<"m", "e", "d", "i", "u", "m">>)}

\* the nodes of request r whose collaborator call is in flight
Calling(r) == {n \in DOMAIN pc[r].tasks : pc[r].tasks[n] = "calling"}

\* position of a node in the order of the nodes
IndexOf(node) == CHOOSE i \in 1..Len(Order) : Order[i] = node

\* C18: within one run at most one collaborator call is in flight, and
\* while a node's call is in flight every earlier node (and no other) has
\* returned and the state holds all their updates merged in.
C18_OneCallInFlight ==
    \A r \in Requests :
        /\ Cardinality(Calling(r)) <= 1
        /\ \A n \in Calling(r) :
              /\ [k \in 1..Len(calls[r]) |-> calls[r][k].node] =
                    SubSeq(Order, 1, IndexOf(n) - 1)
              /\ state[r] = MergeCalls(initial_state(args[r][1], args[r][2], args[r][3]),
                                       calls[r], Len(calls[r]))

C18_Witness ==
    /\ Calling("r1") = {"actions"}
    /\ Calling("r2") = {"summarizer"}
    /\ state["r1"].summary # PyNone
    /\ state["r1"].decisions # <<>>

\* the state a run with the arguments a and the collaborator outcomes p has
\* after its first n nodes when nothing else runs: each node in turn on the
\* state the nodes before it left
RECURSIVE AloneUpTo(_, _, _)
AloneUpTo(a, p, n) ==
    IF n = 0 THEN initial_state(a[1], a[2], a[3])
    ELSE LET st == AloneUpTo(a, p, n - 1)
         IN  Merge(st, RunNode(Order[n], st,
                               IF Order[n] = "parser" THEN NoOutcome ELSE p[Order[n]]))

\* C19: however the steps of the requests interleave, what a request's
\* analyze() returns is what the same arguments and collaborator outcomes
\* give when the run is alone.
C19_RunsIndependent ==
    \A r \in Requests :
        pc[r].phase = "returned" =>
            returned[r] = <<AloneUpTo(args[r], plan[r], Len(Order))>>

C19_Witness ==
    /\ pc["r1"].phase = "returned"
    /\ pc["r2"].phase = "returned"
    /\ args["r1"][3] # args["r2"][3]
    /\ plan["r1"] # plan["r2"]
    /\ returned["r1"][1].error = PyNone
    /\ returned["r2"][1].error # PyNone

\* StepOf(r) is enabled: request r has a step to take.  Only the steps of
\* r change pc[r], state[r] and plan[r], so a request that has no step in
\* some state has none ever after.
CanStep(r) ==
    \/ pc[r].phase \in {"idle", "end"}
    \/ /\ pc[r].phase = "step"
       /\ \/ \E n \in DOMAIN pc[r].tasks : pc[r].tasks[n] = "ready"
          \/ \E n \in DOMAIN pc[r].tasks :
                pc[r].tasks[n] = "calling" /\ OutcomeFor(r, n).kind # "hangs"
          \/ \A n \in DOMAIN pc[r].tasks : pc[r].tasks[n] = "done"

\* C20: a run that has begun and has not returned always has a step to
\* take, also while a collaborator call that is never answered is awaited
\* (the node is to bound the call and turn the timeout into its failure
\* output), so that every run comes to return.
C20_Original ==
    \A r \in Requests :
        (run[r] = 1 /\ pc[r].phase # "returned") => CanStep(r)

\* the regular expression PATTERNS holds under a name
RegexOf(name) == PATTERNS[CHOOSE k \in 1..Len(PATTERNS) : PATTERNS[k].name = name].re

\* the order of the patterns as C21 gives it
ClaimedOrder ==
    <<"bracket_timestamp", "dash_timestamp", "paren_timestamp", "simple_speaker">>

\* the patterns of ClaimedOrder that match the text s
Hits(s) == {k \in 1..Len(ClaimedOrder) : Match(RegexOf(ClaimedOrder[k]), s) # <<>>}

\* the mapping of the first pattern of ClaimedOrder that matches the trimmed
\* line, NoMatch when the trimmed line is empty or nothing matches it
FirstInOrder(line) ==
    LET s == Strip(line)
        hits == Hits(s)
    IN  IF s = <<>> \/ hits = {} THEN NoMatch
        ELSE LET k == CHOOSE h \in hits : \A g \in hits : h <= g
             IN  LineFields(ClaimedOrder[k], Match(RegexOf(ClaimedOrder[k]), s))

\* FirstInOrder of each line a scanned transcript can hold
Expected == [line \in ScanLineSet |-> FirstInOrder(line)]

\* C21: for every line scanned, the classifier returns the mapping of the
\* first pattern, in the order bracketed, dash-delimited, parenthesized, bare
\* speaker, that matches the trimmed line; a blank line and a line no
\* pattern matches yield no match.
C21_FirstMatchWins ==
    pc \in {"scan", "scanned"} =>
        \A n \in 1..Len(calls) : calls[n].parsed = Expected[calls[n].line]

\* "Al: x (1:05): y" matches the parenthesized and the bare-speaker pattern
\* and was given the parenthesized mapping; a line nothing matches was
\* scanned after it
C21_Witness ==
    /\ pc = "scanned"
    /\ Len(calls) = 2
    /\ calls[1].line = <<"A", "l", ":", " ", "x", " ", "(", "1", ":", "0", "5", ")", ":", " ", "y">>
    /\ Hits(Strip(calls[1].line)) = {3, 4}
    /\ calls[1].parsed = Parsed(<<"1", ":", "0", "5">>, <<"A", "l", ":", " ", "x">>, <<"y">>)
    /\ Strip(calls[2].line) # <<>>
    /\ Hits(Strip(calls[2].line)) = {}
    /\ calls[2].parsed = NoMatch

\* the scan has a line to read
ScanStep == pc = "scan" /\ plan # <<>>

\* C22: one iteration of the scan changes the segments thus: a blank line
\* changes nothing; a line the classifier matches appends a segment with the
\* matched speaker, timestamp and text; a non-blank line it does not match
\* appends a space and the trimmed line to the last segment's text when
\* there is a segment, and otherwise creates the first segment ("Unknown",
\* "00:00", trimmed line).  Segments are only ever appended, so they stay
\* in input order and none is merged with another.
C22_SegmentBuilder ==
    [][ScanStep =>
          LET line == Head(plan)
              trimmed == Strip(line)
              m == calls'[Len(calls')].parsed
              segs == state.segments
              last == Len(segs)
          IN  /\ trimmed = <<>> => state'.segments = segs
              /\ m.matched =>
                    state'.segments = Append(segs, Segment(m.speaker, m.timestamp, m.text))
              /\ (trimmed # <<>> /\ ~m.matched /\ segs # <<>>) =>
                    state'.segments =
                        [segs EXCEPT ![last].text = @ \o <<" ">> \o trimmed]
              /\ (trimmed # <<>> /\ ~m.matched /\ segs = <<>>) =>
                    state'.segments = <<Segment(Unknown, ZeroTime, trimmed)>>
       ]_vars

\* the spec's scenario "[0:01] Al: hi", "Bo: hi", "more" was scanned and gave
\* ("Al", "0:01", "hi") and ("Bo", "00:00", "hi more")
C22_Witness ==
    /\ pc = "scanned"
    /\ Len(calls) = 3
    /\ calls[1].parsed.matched /\ calls[2].parsed.matched /\ ~calls[3].parsed.matched
    /\ returned[1] =
          <<Segment(<<"A", "l">>, <<"0", ":", "0", "1">>, <<"h", "i">>),
            Segment(<<"B", "o">>, ZeroTime, <<"h", "i", " ", "m", "o", "r", "e">>)>>

\* C23: in one iteration of the scan no segment but the last changes, the
\* last keeps its speaker and timestamp and its text changes only by a
\* continuation line (a non-blank line the classifier does not match)
\* being appended to it after a space, and no segment is removed.
C23_OnlyLastAppended ==
    [][ScanStep =>
          LET segs == state.segments
              last == Len(segs)
              line == Head(plan)
              m == calls'[Len(calls')].parsed
          IN  /\ Len(state'.segments) >= last
              /\ \A n \in 1..last :
                    /\ state'.segments[n].speaker = segs[n].speaker
                    /\ state'.segments[n].timestamp = segs[n].timestamp
                    /\ n < last => state'.segments[n] = segs[n]
                    /\ \/ state'.segments[n].text = segs[n].text
                       \/ /\ n = last
                          /\ ~m.matched
                          /\ Strip(line) # <<>>
                          /\ state'.segments[n].text = segs[n].text \o <<" ">> \o Strip(line)
       ]_vars

\* two segments were started and a continuation line then changed the
\* second one only
C23_Witness ==
    /\ pc = "scan"
    /\ Len(calls) = 3
    /\ calls[1].parsed.matched /\ calls[2].parsed.matched /\ ~calls[3].parsed.matched
    /\ Len(state.segments) = 2
    /\ state.segments[1].text = calls[1].parsed.text
    /\ state.segments[2].text = calls[2].parsed.text \o <<" ">> \o Strip(calls[3].line)
    /\ Strip(calls[3].line) # <<>>

\* the trimmed line is a capitalized name of letters and spaces and a colon
IsBareName(line) ==
    LET s == Strip(line)
    IN  /\ Len(s) >= 3
        /\ s[Len(s)] = ":"
        /\ s[1] \in Upper
        /\ \A i \in 2..(Len(s) - 1) : s[i] \in Upper \cup Lower \cup Whitespace

\* C24 as claimed: a line "Name: " (a capitalized name, a colon and only
\* whitespace after it) is classified as a bare-speaker match with speaker
\* Name, timestamp "00:00" and empty text, and the segment builder starts a
\* new segment (Name, "00:00", "") for it.
C24_Original ==
    (pc = "scan" /\ calls # <<>> /\ IsBareName(calls[Len(calls)].line)) =>
        LET s == Strip(calls[Len(calls)].line)
            name == Strip(SubSeq(s, 1, Len(s) - 1))
        IN  /\ calls[Len(calls)].parsed = Parsed(ZeroTime, name, <<>>)
            /\ state.segments # <<>>
            /\ state.segments[Len(state.segments)] = Segment(name, ZeroTime, <<>>)

\* C25 as claimed: whichever pattern matches a line, the speaker the
\* classifier returns holds no colon and has no surrounding whitespace.
C25_Original ==
    pc \in {"scan", "scanned"} =>
        \A n \in 1..Len(calls) :
            calls[n].parsed.matched =>
                /\ \A i \in 1..Len(calls[n].parsed.speaker) : calls[n].parsed.speaker[i] # ":"
                /\ Strip(calls[n].parsed.speaker) = calls[n].parsed.speaker

\* hyphen, en dash, em dash
Dashes == {"-", "U+2013", "U+2014"}

\* C26 as claimed: the line "0:02 <dash> Bo: ok" is classified by the
\* dash-delimited pattern as ("Bo", "0:02", "ok") whether the dash is a
\* hyphen, an en dash or an em dash.
C26_Original ==
    pc \in {"scan", "scanned"} =>
        \A n \in 1..Len(calls) : \A dash \in Dashes :
            calls[n].line = <<"0", ":", "0", "2", " ", dash, " ", "B", "o", ":", " ", "o", "k">> =>
                /\ Match(dash_timestamp, Strip(calls[n].line)) # <<>>
                /\ calls[n].parsed = Parsed(<<"0", ":", "0", "2">>, <<"B", "o">>, <<"o", "k">>)

\* the lines scanned so far that the classifier matched, in scan order
MatchedCalls == SelectSeq(calls, LAMBDA c : c.parsed.matched)

\* 1 when the first non-blank line scanned so far was not matched, else 0
LeadingUnmatched ==
    LET nonblank == {n \in 1..Len(calls) : Strip(calls[n].line) # <<>>}
    IN  IF nonblank = {} THEN 0
        ELSE IF calls[CHOOSE n \in nonblank : \A k \in nonblank : n <= k].parsed.matched
             THEN 0 ELSE 1

\* C27: at every point of the scan there are as many segments as matched
\* lines so far, plus one exactly when the first non-blank line was not
\* matched; that extra segment is the first and is labelled ("Unknown",
\* "00:00"); every other segment carries the speaker and timestamp of its
\* own matched line.
C27_SegmentCount ==
    pc \in {"scan", "scanned"} =>
        /\ Len(state.segments) = Len(MatchedCalls) + LeadingUnmatched
        /\ LeadingUnmatched = 1 =>
              /\ state.segments[1].speaker = Unknown
              /\ state.segments[1].timestamp = ZeroTime
        /\ \A k \in 1..Len(MatchedCalls) :
              /\ state.segments[k + LeadingUnmatched].speaker = MatchedCalls[k].parsed.speaker
              /\ state.segments[k + LeadingUnmatched].timestamp = MatchedCalls[k].parsed.timestamp

\* an unmatched first line, a matched line and another unmatched line
\* after it gave two segments, the first labelled ("Unknown", "00:00")
C27_Witness ==
    /\ pc = "scanned"
    /\ Len(calls) = 3
    /\ Strip(calls[1].line) # <<>> /\ ~calls[1].parsed.matched
    /\ calls[2].parsed.matched /\ calls[2].parsed.speaker = <<"B", "o">>
    /\ Strip(calls[3].line) # <<>> /\ ~calls[3].parsed.matched
    /\ Len(returned[1]) = 2
    /\ returned[1][1].speaker = Unknown
    /\ returned[1][2].speaker = <<"B", "o">>

\* the analyses that have returned to their client
Analysed == {c \in Clients : pc[c] = "done" /\ args[c].op = "analyze" /\ calls[c] # <<>>}

\* the four cached fields of the meeting are those of the final state st
CachedFrom(meeting, st) ==
    /\ meeting.summary = st.summary
    /\ meeting.key_topics = st.key_topics
    /\ meeting.decisions = st.decisions
    /\ meeting.action_items = st.action_items

\* C28: whatever the interleaving of analyze requests, the cached analysis
\* of every stored meeting is either still empty or is, in all four fields,
\* the result of one single analysis of that meeting; and the response of
\* every analysis reports the summary, key topics, decisions and action
\* items of the final state its own run returned.
C28_CacheFromOneRun ==
    /\ \A id \in DOMAIN state :
          \/ CachedFrom(state[id], Meeting(id, "", <<>>, <<>>, <<>>))
          \/ \E c \in Analysed :
                args[c].meeting_id = id /\ CachedFrom(state[id], calls[c].result)
    /\ \A c \in Analysed :
          /\ returned[c].meeting_id = args[c].meeting_id
          /\ returned[c].summary.overview = calls[c].result.summary
          /\ returned[c].summary.key_topics = calls[c].result.key_topics
          /\ returned[c].summary.decisions = calls[c].result.decisions
          /\ returned[c].summary.action_items = calls[c].result.action_items

\* two analyses of one meeting overlapped, were answered differently by the
\* collaborator and have both returned
C28_Witness ==
    \E a \in Analysed : \E b \in Analysed :
        /\ a # b
        /\ args[a].meeting_id = args[b].meeting_id
        /\ a \in calls[b].concurrent
        /\ calls[a].result.summary # calls[b].result.summary
        /\ calls[a].result.decisions # calls[b].result.decisions
        /\ calls[a].result.action_items # calls[b].result.action_items
        /\ CachedFrom(state[args[a].meeting_id], calls[a].result)

\* C29 as claimed: an upload that ends with an error leaves the meeting
\* store as it was.
C29_Original ==
    [][\A c \in Clients :
          (/\ pc[c] = "idle"
           /\ pc'[c] = "done"
           /\ args'[c].op = "upload"
           /\ returned'[c].status_code = 500) => state' = state
      ]_vars

\* the names a list of participants holds
NamesOf(participants) == {participants[n] : n \in 1..Len(participants)}

\* C30 as claimed: the participants recorded for a meeting at upload never
\* include "Unknown", and they are the set of names the parse stage of an
\* analysis of that meeting reports as participants.
C30_Original ==
    /\ \A id \in DOMAIN state : Unknown \notin NamesOf(state[id].participants)
    /\ \A c \in Analysed :
          NamesOf(state[args[c].meeting_id].participants) =
              NamesOf(calls[c].result.participants)

====
